---- MODULE Spec2Model ----
(***************************************************************************)
(* Execution and scheduling engine of crew-flow-manager:                   *)
(*   FlowExecutor      (backend/app/services/flow_executor.py)             *)
(*   WebSocketManager  (backend/app/services/websocket_manager.py)         *)
(*   SchedulerService  (backend/app/services/scheduler.py)                 *)
(*   the executions / schedules / flows / websocket endpoints (backend/api)*)
(* Every execute_flow call runs on a thread of its own (a background task  *)
(* or a scheduler worker, each with a private event loop), so the steps of *)
(* different runners, of the websocket endpoint and of the API handlers    *)
(* interleave at every statement boundary that touches shared state.       *)
(***************************************************************************)
EXTENDS Integers, Sequences, FiniteSets, TLC

\* ------------------------------------------------------------------ bounds
MaxTime      == 1     \* clock ticks the model lets pass
MaxRuns      == 2     \* execution records and runner threads
MaxObservers == 2     \* websocket connections ever opened
MaxSchedules == 1     \* schedule records ever created
MaxUpdates   == 2     \* update_schedule requests in flight at once
MaxCronTime  == 2     \* clock ticks the scheduling specifications let pass
MaxJobIds    == 2     \* schedule ids handed to the scheduler service directly

Runners   == 1..MaxRuns
ExecIds   == 1..MaxRuns
Observers == 1..MaxObservers
SchedIds  == 1..MaxSchedules
UpdateThreads == 1..MaxUpdates
FlowIds   == {1, 2}

\* ------------------------------------------------------------- data model
\* A nullable DateTime column that holds NULL.
NoTime == -1
\* A nullable Text column that holds NULL.
NoError == "None"

\* The invocation parameters of a run or a schedule; "" stands for None.
Params(model, provider, url, inputs) ==
  [model_override |-> model, llm_provider |-> provider, llm_base_url |-> url,
   inputs |-> inputs]
NoParams == Params("", "", "", "")

\* ExecutionStatus
PENDING   == "pending"
RUNNING   == "running"
SUCCESS   == "success"
FAILED    == "failed"
CANCELLED == "cancelled"
ExecutionStatus == {PENDING, RUNNING, SUCCESS, FAILED, CANCELLED}
Terminal == {SUCCESS, FAILED, CANCELLED}

\* Execution(flow_id=...) as db.add/db.commit stores it: the column defaults.
NewExecution(fid, p) ==
  [present |-> TRUE, flow_id |-> fid, status |-> PENDING, params |-> p,
   outputs |-> <<>>, error_message |-> NoError, logs |-> <<>>,
   started_at |-> NoTime, completed_at |-> NoTime]

\* An id of the executions table that holds no row.
NoExecution ==
  [present |-> FALSE, flow_id |-> 0, status |-> PENDING, params |-> NoParams,
   outputs |-> <<>>, error_message |-> NoError, logs |-> <<>>,
   started_at |-> NoTime, completed_at |-> NoTime]

\* ---------------------------------------------------------- flow documents
\* A flow document (Flow.yaml_content): whether yaml.safe_load accepts it and,
\* when it does, the agents (their roles) and tasks it declares.
TaskCfg(d, a) == [description |-> d, agent |-> a]
FlowDoc(ok, as, ts) == [parses |-> ok, agents |-> as, tasks |-> ts]

DocOneTask   == FlowDoc(TRUE, <<"r">>, <<TaskCfg("d", "r")>>)
DocTwoTasks  == FlowDoc(TRUE, <<"r">>, <<TaskCfg("d", "r"), TaskCfg("e", "r")>>)
DocNoAgents  == FlowDoc(TRUE, <<>>, <<TaskCfg("d", "r")>>)
DocNoTasks   == FlowDoc(TRUE, <<"r">>, <<>>)
DocNothing   == FlowDoc(TRUE, <<>>, <<>>)
DocBadAgent  == FlowDoc(TRUE, <<"r">>, <<TaskCfg("d", "q"), TaskCfg("e", "r")>>)
DocMalformed == FlowDoc(FALSE, <<>>, <<>>)
Docs == {DocOneTask, DocTwoTasks, DocNoAgents, DocNoTasks, DocNothing,
         DocBadAgent, DocMalformed}

\* FlowValidator.validate: a document that does not parse is invalid; agents and
\* tasks are optional fields (every agent of Docs has a role, every task a
\* description, and the flow name is a separate, non-empty column).
Validate(doc) == doc.parses

\* selected_tasks: Optional[List[str]]
NoSelection == [given |-> FALSE, items |-> <<>>]
Selection(s) == [given |-> TRUE, items |-> s]
\* Python truthiness of selected_tasks: None and [] are both false.
Truthy(sel) == sel.given /\ sel.items # <<>>

InSeq(x, s) == \E i \in 1..Len(s) : s[i] = x

LogLine(tag, arg) == [tag |-> tag, arg |-> arg]

\* ----------------------------------------------------- _execute_crewai_flow
\* agents: the dict role -> Agent built from the agent configs that have a role.
AgentRoles(cfg) == {cfg.agents[i] : i \in {j \in 1..Len(cfg.agents) : cfg.agents[j] # ""}}

\* tasks_to_execute / tasks_to_simulate: the filter on selected_tasks.
FilterTasks(tasks, sel) ==
  IF Truthy(sel)
    THEN SelectSeq(tasks, LAMBDA t : InSeq(t.description, sel.items))
    ELSE tasks

\* tasks: the Task objects created (description, agent present; agent known).
CreatedTasks(cfg, sel) ==
  SelectSeq(FilterTasks(cfg.tasks, sel),
            LAMBDA t : t.description # "" /\ t.agent # "" /\ t.agent \in AgentRoles(cfg))

Output(res, n, a, sim) ==
  [result |-> res, tasks_executed |-> n, agents_used |-> a, simulation |-> sim]

\* The try body: CrewAI imports succeed. kickoff is the outcome of crew.kickoff
\* ("ok" or the text of the exception it raises).
RealRun(cfg, sel, kickoff) ==
  LET l0 == <<LogLine("parsing", "")>> IN
  IF cfg.agents = <<>>
    THEN [raised |-> FALSE, err |-> NoError,
          logs |-> l0 \o <<LogLine("no_agents", "")>>,
          out |-> Output("No agents to execute", 0, 0, FALSE)]
  ELSE IF cfg.tasks = <<>>
    THEN [raised |-> FALSE, err |-> NoError,
          logs |-> l0 \o <<LogLine("no_tasks", "")>>,
          out |-> Output("No tasks to execute", 0, 0, FALSE)]
  ELSE
    LET l1 == l0 \o <<LogLine("creating_agents", "")>>
        l2 == IF Truthy(sel) THEN l1 \o <<LogLine("filtered", "")>> ELSE l1
        l3 == l2 \o <<LogLine("creating_tasks", "")>>
        tasks == CreatedTasks(cfg, sel)
    IN IF tasks = <<>>
         THEN [raised |-> FALSE, err |-> NoError,
               logs |-> l3 \o <<LogLine("no_valid_tasks", "")>>,
               out |-> Output("No valid tasks", 0, 0, FALSE)]
       ELSE IF kickoff = "ok"
         THEN [raised |-> FALSE, err |-> NoError,
               logs |-> l3 \o <<LogLine("starting_crew", ""), LogLine("crew_completed", "")>>,
               out |-> Output("crew result", Len(tasks), Cardinality(AgentRoles(cfg)), FALSE)]
       ELSE [raised |-> TRUE, err |-> kickoff,
             logs |-> l3 \o <<LogLine("starting_crew", ""), LogLine("error", kickoff)>>,
             out |-> Output("", 0, 0, FALSE)]

\* The except ImportError branch without line 299 and line 323: neither the log
\* line nor the "simulation" key.
SimulatedRunUnmarked(cfg, sel) ==
  LET tasks == FilterTasks(cfg.tasks, sel) IN
  [raised |-> FALSE, err |-> NoError,
   logs |-> <<LogLine("error", "ImportError"), LogLine("simulating", "")>>
            \o [i \in 1..Len(tasks) |-> LogLine("simulated", tasks[i].description)]
            \o <<LogLine("simulation_completed", "")>>,
   out |-> Output("Simulated execution (CrewAI not installed)", Len(tasks), 0, FALSE)]

\* The except ImportError branch: CrewAI is not installed, the run is simulated.
SimulatedRun(cfg, sel) ==
  LET tasks == FilterTasks(cfg.tasks, sel) IN
  [raised |-> FALSE, err |-> NoError,
   logs |-> <<LogLine("simulation_mode", ""), LogLine("error", "ImportError"),
              LogLine("simulating", "")>>
            \o [i \in 1..Len(tasks) |-> LogLine("simulated", tasks[i].description)]
            \o <<LogLine("simulation_completed", "")>>,
   out |-> Output("Simulated execution (CrewAI not installed)", Len(tasks), 0, TRUE)]

ExecuteCrewaiFlow(cfg, sel, installed, kickoff) ==
  IF installed THEN RealRun(cfg, sel, kickoff) ELSE SimulatedRun(cfg, sel)

\* The header lines execute_flow writes before it calls _execute_crewai_flow.
HeaderLogs(name, p, sel) ==
  <<LogLine("starting", name)>>
  \o (IF p.model_override # "" THEN <<LogLine("model_override", p.model_override)>> ELSE <<>>)
  \o (IF p.llm_provider # "" THEN <<LogLine("llm_provider", p.llm_provider)>> ELSE <<>>)
  \o (IF p.llm_base_url # "" THEN <<LogLine("llm_base_url", p.llm_base_url)>> ELSE <<>>)
  \o (IF p.inputs # "" THEN <<LogLine("inputs", p.inputs)>> ELSE <<>>)
  \o (IF Truthy(sel) THEN <<LogLine("selected_tasks", "")>> ELSE <<>>)

\* ------------------------------------------------------------------- state
VARIABLES
  now,                 \* datetime.utcnow(), in clock ticks
  installed,           \* whether the CrewAI imports of _execute_crewai_flow succeed
  flows,               \* the flows table: flow id -> row
  executions,          \* the executions table: execution id -> row
  run,                 \* the execute_flow calls: runner thread -> its locals
  active_connections,  \* WebSocketManager.active_connections (a list)
  ws,                  \* each websocket: "new", "open", "stalled" (peer stopped
                       \* reading), "broken" (peer gone), "closed"
  received,            \* history: the execution_update events each websocket got
  published,           \* history: the events handed to broadcast, in call order
  schedules,           \* the schedules table: schedule id -> row
  jobs,                \* the scheduler's job store (SQLAlchemyJobStore)
  running,             \* SchedulerService._running
  upd,                 \* the update_schedule requests in flight: request thread -> locals
  lastSchedId,         \* the last id the schedules table gave out
  resp                 \* history: the last API call and its outcome

vars == <<now, installed, flows, executions, run, active_connections, ws, received,
          published, schedules, jobs, running, upd, lastSchedId, resp>>

engineVars == <<executions, run, active_connections, ws, received, published>>
cronVars   == <<schedules, jobs, running, upd, lastSchedId>>

\* The flows table row; yaml_content is the document, is_valid what
\* create_flow / update_flow stored from FlowValidator.validate.
FlowRow(name, doc) ==
  [present |-> TRUE, name |-> name, yaml_content |-> doc, is_valid |-> Validate(doc)]
NoFlow == [present |-> FALSE, name |-> "", yaml_content |-> DocMalformed, is_valid |-> FALSE]

\* One execution_update message; n numbers the broadcast calls.
Event(n, eid, status, err) ==
  [n |-> n, execution_id |-> eid, status |-> status, error |-> err]

\* A runner thread that has not been given a call.
IdleRunner ==
  [pc |-> "idle", eid |-> 0, job |-> 0, name |-> "", doc |-> DocMalformed,
   params |-> NoParams, sel |-> NoSelection, logs |-> <<>>, out |-> Output("", 0, 0, FALSE),
   err |-> NoError, ctx |-> "", bi |-> 0, bdisc |-> <<>>,
   msg |-> Event(0, 0, "", NoError), escaped |-> FALSE]

\* execute_flow(db, execution_id, flow, ..., selected_tasks) handed to a thread;
\* job is the schedule id of the scheduler job that made the call (0: none).
Call(eid, job, flow, p, sel) ==
  [IdleRunner EXCEPT !.pc = "start", !.eid = eid, !.job = job, !.name = flow.name,
                     !.doc = flow.yaml_content, !.params = p, !.sel = sel]

Active(r) == run[r].pc \notin {"idle", "done"}
IdleRunners == {r \in Runners : run[r].pc = "idle"}
\* The thread the next call gets.
FreeRunner == CHOOSE r \in IdleRunners : \A q \in IdleRunners : r <= q
\* The id the next inserted execution row gets.
UsedExecIds ==
  ({e \in ExecIds : executions[e].present} \cup {run[r].eid : r \in Runners}) \ {0}
NextExecId == Cardinality(UsedExecIds) + 1

Remove(s, x) == SelectSeq(s, LAMBDA y : y # x)

\* execute_flow without lines 45-47: the call goes on when the row is absent.
StartUnchecked(r) ==
  /\ run[r].pc = "start"
  /\ run' = [run EXCEPT ![r].pc = "set_running"]
  /\ UNCHANGED <<now, installed, flows, executions, active_connections, ws, received,
                 published, cronVars, resp>>

\* ---------------------------------------------------------- execute_flow
\* Lines 44-47: load the execution row; return when there is none.
Start(r) ==
  /\ run[r].pc = "start"
  /\ run' = [run EXCEPT ![r].pc =
               IF executions[run[r].eid].present THEN "set_running" ELSE "done"]
  /\ UNCHANGED <<now, installed, flows, executions, active_connections, ws, received,
                 published, cronVars, resp>>

\* A commit of a row that another session deleted raises (StaleDataError).
Stale == "StaleDataError"

\* Line 51 without line 52: the status alone.
MarkRunningUnstamped(row, t) == [row EXCEPT !.status = RUNNING]

\* Line 52 without line 51: the row committed before the status is written.
MarkRunningStatusLater(row, t) == [row EXCEPT !.started_at = t]

\* Lines 51-53: status RUNNING, started_at, commit.
MarkRunning(row, t) == [row EXCEPT !.status = RUNNING, !.started_at = t]

SetRunning(r) ==
  LET e == run[r].eid IN
  /\ run[r].pc = "set_running"
  /\ IF executions[e].present
       THEN /\ executions' = [executions EXCEPT ![e] = MarkRunning(@, now)]
            /\ run' = [run EXCEPT ![r].pc = "publish", ![r].ctx = RUNNING]
       ELSE /\ run' = [run EXCEPT ![r].pc = "handler", ![r].err = Stale]
            /\ UNCHANGED executions
  /\ UNCHANGED <<now, installed, flows, active_connections, ws, received, published,
                 cronVars, resp>>

\* Where execute_flow goes on when a broadcast returns.
AfterBroadcast(ctx) == IF ctx = RUNNING THEN "parse" ELSE "done"

\* Where an exception raised by a broadcast lands: the except block of
\* execute_flow for the two broadcasts of the try body; out of execute_flow for
\* the broadcast of the except block itself.
RaiseInBroadcast(rr, text) ==
  IF rr.ctx \in {RUNNING, SUCCESS}
    THEN [rr EXCEPT !.pc = "handler", !.err = text]
    ELSE [rr EXCEPT !.pc = "done", !.escaped = TRUE]

\* Lines 66-86: yaml.safe_load raises on a malformed document; otherwise the
\* header lines of the log are built.
Parse(r) ==
  /\ run[r].pc = "parse"
  /\ run' = [run EXCEPT ![r] =
       IF run[r].doc.parses
         THEN [@ EXCEPT !.pc = "crew",
                        !.logs = HeaderLogs(run[r].name, run[r].params, run[r].sel)]
         ELSE [@ EXCEPT !.pc = "handler", !.err = "YAMLError"]]
  /\ UNCHANGED <<now, installed, flows, executions, active_connections, ws, received,
                 published, cronVars, resp>>

Kickoffs == {"ok", "TaskError"}

\* Lines 89-97: await _execute_crewai_flow; its exception goes to the except block.
Crew(r) ==
  /\ run[r].pc = "crew"
  /\ \E k \in Kickoffs :
       LET res == ExecuteCrewaiFlow(run[r].doc, run[r].sel, installed, k) IN
       run' = [run EXCEPT ![r] =
         IF res.raised
           THEN [@ EXCEPT !.pc = "handler", !.err = res.err, !.logs = @ \o res.logs]
           ELSE [@ EXCEPT !.pc = "commit_success", !.out = res.out, !.logs = @ \o res.logs]]
  /\ UNCHANGED <<now, installed, flows, executions, active_connections, ws, received,
                 published, cronVars, resp>>

\* Lines 100-104 without line 101: completed_at is left as it was.
MarkSuccessUnstamped(row, t, logs, out) ==
  [row EXCEPT !.status = SUCCESS, !.logs = logs, !.outputs = <<out>>]

\* Lines 100-104: status SUCCESS, completed_at, logs, outputs, commit.
MarkSuccess(row, t, logs, out) ==
  [row EXCEPT !.status = SUCCESS, !.completed_at = t, !.logs = logs, !.outputs = <<out>>]

CommitSuccess(r) ==
  LET e == run[r].eid IN
  /\ run[r].pc = "commit_success"
  /\ IF executions[e].present
       THEN /\ executions' = [executions EXCEPT ![e] =
                                MarkSuccess(@, now, run[r].logs, run[r].out)]
            /\ run' = [run EXCEPT ![r].pc = "publish", ![r].ctx = SUCCESS]
       ELSE /\ run' = [run EXCEPT ![r].pc = "handler", ![r].err = Stale]
            /\ UNCHANGED executions
  /\ UNCHANGED <<now, installed, flows, active_connections, ws, received, published,
                 cronVars, resp>>

\* Lines 123-126 without line 125: error_message is left as it was.
MarkFailedNoDetail(row, t, err) ==
  [row EXCEPT !.status = FAILED, !.completed_at = t]

\* Lines 123-126: status FAILED, completed_at, error_message, commit.
MarkFailed(row, t, err) ==
  [row EXCEPT !.status = FAILED, !.completed_at = t, !.error_message = err]

\* Lines 119-126: the except block; a commit that raises here leaves execute_flow.
Handler(r) ==
  LET e == run[r].eid IN
  /\ run[r].pc = "handler"
  /\ IF executions[e].present
       THEN /\ executions' = [executions EXCEPT ![e] = MarkFailed(@, now, run[r].err)]
            /\ run' = [run EXCEPT ![r].pc = "publish", ![r].ctx = FAILED]
       ELSE /\ run' = [run EXCEPT ![r].pc = "done", ![r].escaped = TRUE]
            /\ UNCHANGED executions
  /\ UNCHANGED <<now, installed, flows, active_connections, ws, received, published,
                 cronVars, resp>>

\* ------------------------------------------------------ WebSocketManager
\* broadcast, lines 39-44: return at once when nobody is connected; otherwise
\* start the loop over active_connections.
BroadcastBegin(r) ==
  LET m == Event(Len(published) + 1, run[r].eid, run[r].ctx,
                 IF run[r].ctx = FAILED THEN run[r].err ELSE NoError) IN
  /\ run[r].pc = "publish"
  /\ published' = Append(published, m)
  /\ run' = [run EXCEPT ![r] =
       IF active_connections = <<>>
         THEN [@ EXCEPT !.pc = AfterBroadcast(run[r].ctx), !.msg = m]
         ELSE [@ EXCEPT !.pc = "bsend", !.msg = m, !.bi = 1, !.bdisc = <<>>]]
  /\ UNCHANGED <<now, installed, flows, executions, active_connections, ws, received,
                 cronVars, resp>>

\* Lines 46-51: one turn of "for connection in self.active_connections". The list
\* iterator holds an index into the live list; send_text raises when the peer is
\* gone, and "await connection.send_text" (no timeout) does not return while the
\* peer has stopped reading.
BroadcastSend(r) ==
  /\ run[r].pc = "bsend"
  /\ run[r].bi <= Len(active_connections) => ws[active_connections[run[r].bi]] # "stalled"
  /\ IF run[r].bi > Len(active_connections)
       THEN /\ run' = [run EXCEPT ![r].pc = "bcheck"]
            /\ UNCHANGED received
       ELSE LET c == active_connections[run[r].bi] IN
            IF ws[c] = "open"
              THEN /\ received' = [received EXCEPT ![c] = Append(@, run[r].msg)]
                   /\ run' = [run EXCEPT ![r].bi = @ + 1]
              ELSE /\ run' = [run EXCEPT ![r].bi = @ + 1, ![r].bdisc = Append(@, c)]
                   /\ UNCHANGED received
  /\ UNCHANGED <<now, installed, flows, executions, active_connections, ws, published,
                 cronVars, resp>>

\* Lines 53-54 and disconnect line 26: "if websocket in self.active_connections"
\* for the next connection of disconnected; the broadcast returns when none is left.
BroadcastCheck(r) ==
  /\ run[r].pc = "bcheck"
  /\ run' = [run EXCEPT ![r] =
       IF run[r].bdisc = <<>> THEN [@ EXCEPT !.pc = AfterBroadcast(run[r].ctx)]
       ELSE IF InSeq(Head(run[r].bdisc), active_connections) THEN [@ EXCEPT !.pc = "bremove"]
       ELSE [@ EXCEPT !.bdisc = Tail(@)]]
  /\ UNCHANGED <<now, installed, flows, executions, active_connections, ws, received,
                 published, cronVars, resp>>

\* disconnect line 27: self.active_connections.remove(websocket); list.remove
\* raises ValueError when another thread removed the connection after the test.
BroadcastRemove(r) ==
  LET c == Head(run[r].bdisc) IN
  /\ run[r].pc = "bremove"
  /\ IF InSeq(c, active_connections)
       THEN /\ active_connections' = Remove(active_connections, c)
            /\ run' = [run EXCEPT ![r].pc = "bcheck", ![r].bdisc = Tail(@)]
       ELSE /\ run' = [run EXCEPT ![r] = RaiseInBroadcast(@, "ValueError")]
            /\ UNCHANGED active_connections
  /\ UNCHANGED <<now, installed, flows, executions, ws, received, published,
                 cronVars, resp>>

\* websocket_endpoint line 20 and connect: accept, then append to the list.
Connect(o) ==
  /\ ws[o] = "new"
  /\ ws' = [ws EXCEPT ![o] = "open"]
  /\ active_connections' = Append(active_connections, o)
  /\ UNCHANGED <<now, installed, flows, executions, run, received, published,
                 cronVars, resp>>

\* The peer of an open websocket stops reading: a send to it does not complete.
Stall(o) ==
  /\ ws[o] = "open"
  /\ ws' = [ws EXCEPT ![o] = "stalled"]
  /\ UNCHANGED <<now, installed, flows, executions, run, active_connections, received,
                 published, cronVars, resp>>

\* The peer of a websocket goes away; every send_text to it raises from then on.
PeerGone(o) ==
  /\ ws[o] \in {"open", "stalled"}
  /\ ws' = [ws EXCEPT ![o] = "broken"]
  /\ UNCHANGED <<now, installed, flows, executions, run, active_connections, received,
                 published, cronVars, resp>>

\* websocket_endpoint lines 34-39: receive_text raises, the endpoint calls
\* disconnect (the event loop thread runs the test and the remove in one piece).
EndpointDisconnect(o) ==
  /\ ws[o] = "broken"
  /\ ws' = [ws EXCEPT ![o] = "closed"]
  /\ active_connections' = Remove(active_connections, o)
  /\ UNCHANGED <<now, installed, flows, executions, run, received, published,
                 cronVars, resp>>

\* --------------------------------------------------------- executions API
Response(op, id, code) == [op |-> op, id |-> id, code |-> code]

\* create_execution: 404 for an unknown flow, 400 for an invalid one; otherwise
\* insert the row and hand execute_flow to a background thread. The request's
\* selected_tasks (ExecutionCreate.selected_tasks) is neither stored nor passed
\* on; resp keeps it beside the outcome.
CreateExecution(fid, p, sel) ==
  /\ IdleRunners # {}
  /\ IF ~flows[fid].present
       THEN /\ resp' = Response("create_execution", fid, 404)
            /\ UNCHANGED <<executions, run>>
     ELSE IF ~flows[fid].is_valid
       THEN /\ resp' = Response("create_execution", fid, 400)
            /\ UNCHANGED <<executions, run>>
     ELSE /\ executions' = [executions EXCEPT ![NextExecId] = NewExecution(fid, p)]
          /\ run' = [run EXCEPT ![FreeRunner] =
                       Call(NextExecId, 0, flows[fid], p, NoSelection)]
          /\ resp' = [op |-> "create_execution", id |-> NextExecId, code |-> 201,
                       selected_tasks |-> sel]
  /\ UNCHANGED <<now, installed, flows, active_connections, ws, received, published,
                 cronVars>>

\* ------------------------------------------------------ cron expressions
\* A cron expression is a string, here the tuple of its characters.
CronEveryMinute == <<"*", " ", "*", " ", "*", " ", "*", " ", "*">>
CronMinuteOne   == <<"1", " ", "*", " ", "*", " ", "*", " ", "*">>
CronWideSpaces  == <<" ", "*", " ", " ", "*", " ", "*", " ", "*", " ", "*">>
CronFourFields  == <<"*", " ", "*", " ", "*", " ", "*">>
CronSixFields   == <<"*", " ", "*", " ", "*", " ", "*", " ", "*", " ", "*">>
CronBadField    == <<"x", " ", "*", " ", "*", " ", "*", " ", "*">>
CronInputs == {CronEveryMinute, CronMinuteOne, CronWideSpaces, CronFourFields,
               CronSixFields, CronBadField}

\* str.split(): the maximal runs of characters that are not whitespace.
RECURSIVE SplitFrom(_, _, _)
SplitFrom(s, i, cur) ==
  IF i > Len(s) THEN (IF cur = <<>> THEN <<>> ELSE <<cur>>)
  ELSE IF s[i] = " "
    THEN (IF cur = <<>> THEN <<>> ELSE <<cur>>) \o SplitFrom(s, i + 1, <<>>)
    ELSE SplitFrom(s, i + 1, Append(cur, s[i]))
Split(s) == SplitFrom(s, 1, <<>>)

\* The clock ticks in one minute: the clock is finer than the cron fields.
TicksPerMinute == 2
MinutesPerHour == 60
HoursPerDay    == 24

Digits == {"0", "1", "2", "3", "4", "5", "6", "7", "8", "9"}
DigitValue(c) == CHOOSE v \in 0..9 : <<"0", "1", "2", "3", "4", "5", "6", "7", "8", "9">>[v + 1] = c
IsNumber(tok) == tok # <<>> /\ \A i \in 1..Len(tok) : tok[i] \in Digits
RECURSIVE NumberValue(_)
NumberValue(tok) ==
  IF tok = <<>> THEN 0
  ELSE 10 * NumberValue(SubSeq(tok, 1, Len(tok) - 1)) + DigitValue(tok[Len(tok)])

\* CronTrigger accepts a field that is "*" or a number in the field's range (the
\* expressions of CronInputs use no ranges, steps or lists).
FieldValid(tok, lo, hi) ==
  \/ tok = <<"*">>
  \/ IsNumber(tok) /\ lo <= NumberValue(tok) /\ NumberValue(tok) <= hi
FieldMatches(tok, v) == tok = <<"*">> \/ (IsNumber(tok) /\ NumberValue(tok) = v)

\* CronTrigger(minute, hour, day, month, day_of_week): raises ValueError on a
\* field it cannot parse.
TriggerValid(f) ==
  /\ FieldValid(f[1], 0, 59) /\ FieldValid(f[2], 0, 23) /\ FieldValid(f[3], 1, 31)
  /\ FieldValid(f[4], 1, 12) /\ FieldValid(f[5], 0, 6)

\* Whether the trigger fires at clock value t. The clock starts at 00:00 of the
\* first day of a month, day of week 0, and the model stays within that day.
Fires(f, t) ==
  /\ t % TicksPerMinute = 0
  /\ FieldMatches(f[1], (t \div TicksPerMinute) % MinutesPerHour)
  /\ FieldMatches(f[2], (t \div (TicksPerMinute * MinutesPerHour)) % HoursPerDay)
  /\ FieldMatches(f[3], 1) /\ FieldMatches(f[4], 1) /\ FieldMatches(f[5], 0)

SetMin(S) == CHOOSE m \in S : \A k \in S : m <= k

\* CronTrigger.get_next_fire_time: the first fire time that is not before t
\* (None when there is none within the day). The search starts at the first
\* whole minute not before t (datetime_ceil) and goes field by field: a minute
\* of the current hour, else the first minute of the next matching hour.
NextFire(f, t) ==
  LET first == (t + TicksPerMinute - 1) \div TicksPerMinute
      days == FieldMatches(f[3], 1) /\ FieldMatches(f[4], 1) /\ FieldMatches(f[5], 0)
      minutes == {m \in 0..(MinutesPerHour - 1) : FieldMatches(f[1], m)}
      hours == {h \in 0..(HoursPerDay - 1) : FieldMatches(f[2], h)}
      hour == first \div MinutesPerHour
      sameHour == {m \in minutes : m >= first % MinutesPerHour}
      later == {h \in hours : h > hour}
  IN IF ~days \/ minutes = {} \/ hour >= HoursPerDay THEN NoTime
     ELSE IF hour \in hours /\ sameHour # {}
       THEN TicksPerMinute * (hour * MinutesPerHour + SetMin(sameHour))
     ELSE IF later # {}
       THEN TicksPerMinute * (SetMin(later) * MinutesPerHour + SetMin(minutes))
     ELSE NoTime

\* ------------------------------------------------------- SchedulerService
\* A job of the job store: id "schedule_<id>", the trigger, the args of
\* _execute_scheduled_flow (model_override and inputs only), next_run_time.
Job(sid, fid, f, model, inputs, t) ==
  [id |-> sid, flow_id |-> fid, trigger |-> f, args |-> Params(model, "", "", inputs),
   next_run_time |-> t]

Raise(text, js) == [raised |-> TRUE, err |-> text, jobs |-> js]
Return(js) == [raised |-> FALSE, err |-> NoError, jobs |-> js]

\* scheduler.add_job without replace_existing: the job is stored beside the
\* one already there.
StoreJobBeside(js, j) == js \cup {j}

\* scheduler.add_job(..., id=job_id, replace_existing=True): the job takes the
\* place of the one stored under its id.
StoreJob(js, j) == {k \in js : k.id # j.id} \cup {j}

\* add_job without lines 81-82: missing fields read as "*", extra ones are dropped.
AddJobAnyFieldCount(js, isRunning, sid, fid, cron, model, inputs, t) ==
  IF ~isRunning THEN Raise("RuntimeError", js)
  ELSE LET parts == Split(cron)
           five == [i \in 1..5 |-> IF i <= Len(parts) THEN parts[i] ELSE <<"*">>]
       IN IF ~TriggerValid(five) THEN Raise("ValueError", js)
          ELSE Return(StoreJob(js, Job(sid, fid, five, model, inputs, NextFire(five, t))))

\* add_job without lines 74-75: the running flag is not read.
AddJobUnguarded(js, isRunning, sid, fid, cron, model, inputs, t) ==
  LET parts == Split(cron) IN
    IF Len(parts) # 5 THEN Raise("ValueError", js)
    ELSE IF ~TriggerValid(parts) THEN Raise("ValueError", js)
    ELSE Return(StoreJob(js, Job(sid, fid, parts, model, inputs, NextFire(parts, t))))

\* add_job: RuntimeError when not running, ValueError for a field count other
\* than 5 or a field CronTrigger rejects; otherwise the job is stored with the
\* trigger's first fire time.
AddJob(js, isRunning, sid, fid, cron, model, inputs, t) ==
  IF ~isRunning THEN Raise("RuntimeError", js)
  ELSE LET parts == Split(cron) IN
    IF Len(parts) # 5 THEN Raise("ValueError", js)
    ELSE IF ~TriggerValid(parts) THEN Raise("ValueError", js)
    ELSE Return(StoreJob(js, Job(sid, fid, parts, model, inputs, NextFire(parts, t))))

\* remove_job: nothing when not running; an unknown id is logged, not raised.
RemoveJob(js, isRunning, sid) ==
  IF ~isRunning THEN js ELSE {k \in js : k.id # sid}

\* start: nothing when already running; the new BackgroundScheduler reads the
\* jobs of the SQLAlchemy job store.
StartScheduler ==
  /\ running' = TRUE
  /\ resp' = Response("start", 0, IF running THEN 0 ELSE 1)
  /\ UNCHANGED <<now, installed, flows, engineVars, schedules, jobs, upd, lastSchedId>>

\* shutdown: nothing when not running; the job store keeps its jobs.
ShutdownScheduler ==
  /\ running' = FALSE
  /\ resp' = Response("shutdown", 0, IF running THEN 1 ELSE 0)
  /\ UNCHANGED <<now, installed, flows, engineVars, schedules, jobs, upd, lastSchedId>>

\* ----------------------------------------------------------- schedules API
NewSchedule(fid, cron, p, active, t) ==
  [present |-> TRUE, flow_id |-> fid, cron_expression |-> cron,
   params |-> Params(p.model_override, "", "", p.inputs),
   is_active |-> active, last_run_at |-> NoTime, next_run_at |-> NoTime,
   created_at |-> t]

NoSchedule ==
  [present |-> FALSE, flow_id |-> 0, cron_expression |-> <<>>, params |-> NoParams,
   is_active |-> FALSE, last_run_at |-> NoTime, next_run_at |-> NoTime,
   created_at |-> NoTime]

\* The job stored under a schedule's id (get_job), when there is one.
JobsOf(js, sid) == {k \in js : k.id = sid}
GetJob(js, sid) == CHOOSE k \in JobsOf(js, sid) : TRUE

\* create_schedule without lines 54-60: the flow is not looked up.
CreateScheduleUnchecked(fid, cron, p, active) ==
  LET sid == lastSchedId + 1
      row == NewSchedule(fid, cron, p, active, now)
      res == AddJob(jobs, running, sid, fid, cron, row.params.model_override,
                    row.params.inputs, now)
      added == active /\ ~res.raised
  IN /\ lastSchedId < MaxSchedules
     /\ lastSchedId' = sid
     /\ jobs' = IF added THEN res.jobs ELSE jobs
     /\ schedules' = [schedules EXCEPT ![sid] =
          IF added /\ GetJob(res.jobs, sid).next_run_time # NoTime
            THEN [row EXCEPT !.next_run_at = GetJob(res.jobs, sid).next_run_time]
            ELSE row]
     /\ resp' = Response("create_schedule", sid,
          IF ~active \/ (added /\ GetJob(res.jobs, sid).next_run_time # NoTime)
            THEN 201 ELSE 400)
     /\ UNCHANGED <<now, installed, flows, engineVars, running, upd>>

\* create_schedule: 404 for an unknown flow; the row is inserted and committed;
\* an active schedule is then handed to add_job and gets its next_run_at from the
\* job; an exception of add_job (or of reading a job without a next run time) is
\* answered with 400.
CreateSchedule(fid, cron, p, active) ==
  /\ lastSchedId < MaxSchedules
  /\ IF ~flows[fid].present
       THEN /\ resp' = Response("create_schedule", fid, 404)
            /\ UNCHANGED <<schedules, jobs, lastSchedId>>
       ELSE LET sid == lastSchedId + 1
                row == NewSchedule(fid, cron, p, active, now)
                res == AddJob(jobs, running, sid, fid, cron, row.params.model_override,
                              row.params.inputs, now)
            IN /\ lastSchedId' = sid
               /\ IF ~active
                    THEN /\ schedules' = [schedules EXCEPT ![sid] = row]
                         /\ resp' = Response("create_schedule", sid, 201)
                         /\ UNCHANGED jobs
                  ELSE IF res.raised
                    THEN /\ schedules' = [schedules EXCEPT ![sid] = row]
                         /\ resp' = Response("create_schedule", sid, 400)
                         /\ UNCHANGED jobs
                  ELSE IF GetJob(res.jobs, sid).next_run_time = NoTime
                    THEN /\ schedules' = [schedules EXCEPT ![sid] = row]
                         /\ jobs' = res.jobs
                         /\ resp' = Response("create_schedule", sid, 400)
                  ELSE /\ schedules' = [schedules EXCEPT ![sid] =
                            [row EXCEPT !.next_run_at = GetJob(res.jobs, sid).next_run_time]]
                       /\ jobs' = res.jobs
                       /\ resp' = Response("create_schedule", sid, 201)
  /\ UNCHANGED <<now, installed, flows, engineVars, running, upd>>

NoUpdate == [sid |-> 0, row |-> NoSchedule]

\* update_schedule, lines 112-135, on request thread h: 404 for an unknown
\* schedule; the fields given (not None) are assigned and committed, then the
\* job is removed.
UpdateScheduleBegin(h, sid, cron, model, active) ==
  /\ upd[h] = NoUpdate
  /\ IF ~schedules[sid].present
       THEN /\ resp' = Response("update_schedule", sid, 404)
            /\ UNCHANGED <<schedules, jobs, upd>>
       ELSE LET row == [schedules[sid] EXCEPT
                          !.cron_expression = IF cron # <<>> THEN cron ELSE @,
                          !.params.model_override = IF model # "" THEN model ELSE @,
                          !.is_active = IF active = "none" THEN @ ELSE active = "true"]
            IN /\ schedules' = [schedules EXCEPT ![sid] = row]
               /\ jobs' = RemoveJob(jobs, running, sid)
               /\ upd' = [upd EXCEPT ![h] = [sid |-> sid, row |-> row]]
               /\ resp' = Response("update_schedule", sid, 0)
  /\ UNCHANGED <<now, installed, flows, engineVars, running, lastSchedId>>

\* update_schedule, lines 137-166: an active schedule is added again and gets its
\* next_run_at from the new job (400 when add_job raises); an inactive one has its
\* next_run_at cleared. The commit raises (500) when the row is gone.
UpdateScheduleFinish(h) ==
  LET sid == upd[h].sid
      row == upd[h].row
      res == AddJob(jobs, running, sid, row.flow_id, row.cron_expression,
                    row.params.model_override, row.params.inputs, now)
  IN
  /\ upd[h] # NoUpdate
  /\ upd' = [upd EXCEPT ![h] = NoUpdate]
  /\ IF ~row.is_active
       THEN /\ UNCHANGED jobs
            /\ IF schedules[sid].present
                 THEN /\ schedules' = [schedules EXCEPT ![sid].next_run_at = NoTime]
                      /\ resp' = Response("update_schedule", sid, 200)
                 ELSE /\ resp' = Response("update_schedule", sid, 500)
                      /\ UNCHANGED schedules
     ELSE IF res.raised
       THEN /\ resp' = Response("update_schedule", sid, 400)
            /\ UNCHANGED <<schedules, jobs>>
     ELSE /\ jobs' = res.jobs
          /\ IF GetJob(res.jobs, sid).next_run_time = NoTime
               THEN /\ resp' = Response("update_schedule", sid, 400)
                    /\ UNCHANGED schedules
             ELSE IF schedules[sid].present
               THEN /\ schedules' = [schedules EXCEPT ![sid].next_run_at =
                                       GetJob(res.jobs, sid).next_run_time]
                    /\ resp' = Response("update_schedule", sid, 200)
             ELSE /\ resp' = Response("update_schedule", sid, 500)
                  /\ UNCHANGED schedules
  /\ UNCHANGED <<now, installed, flows, engineVars, running, lastSchedId>>

\* delete_schedule: 404 for an unknown schedule; remove_job, then delete the row.
DeleteSchedule(sid) ==
  /\ IF ~schedules[sid].present
       THEN /\ resp' = Response("delete_schedule", sid, 404)
            /\ UNCHANGED <<schedules, jobs>>
       ELSE /\ jobs' = RemoveJob(jobs, running, sid)
            /\ schedules' = [schedules EXCEPT ![sid] = NoSchedule]
            /\ resp' = Response("delete_schedule", sid, 204)
  /\ UNCHANGED <<now, installed, flows, engineVars, running, upd, lastSchedId>>

\* ------------------------------------------------------------ a job fires
Due(j) == j.next_run_time # NoTime /\ j.next_run_time <= now

\* _execute_scheduled_flow without lines 130-135: the flow is not looked up.
ExecuteScheduledFlowUnchecked(j) ==
  /\ IdleRunners # {}
  /\ executions' = [executions EXCEPT ![NextExecId] = NewExecution(j.flow_id, j.args)]
  /\ run' = [run EXCEPT ![FreeRunner] =
               Call(NextExecId, j.id, flows[j.flow_id],
                    Params(j.args.model_override, j.args.inputs, "", ""), NoSelection)]
  /\ schedules' = [schedules EXCEPT ![j.id] =
                     IF @.present THEN [@ EXCEPT !.last_run_at = now] ELSE @]

\* _execute_scheduled_flow, lines 129-158: nothing for an unknown flow; otherwise
\* insert the execution row, stamp the schedule's last_run_at when the schedule
\* row exists, and run execute_flow on this worker thread until it returns.
\* execute_flow(db, execution.id, flow, model_override, inputs) binds inputs to
\* the fifth positional parameter, llm_provider.
ExecuteScheduledFlow(j) ==
  IF ~flows[j.flow_id].present
    THEN UNCHANGED <<executions, run, schedules>>
    ELSE /\ IdleRunners # {}
         /\ executions' = [executions EXCEPT ![NextExecId] =
                             NewExecution(j.flow_id, j.args)]
         /\ run' = [run EXCEPT ![FreeRunner] =
                      Call(NextExecId, j.id, flows[j.flow_id],
                           Params(j.args.model_override, j.args.inputs, "", ""),
                           NoSelection)]
         /\ schedules' = [schedules EXCEPT ![j.id] =
                            IF @.present THEN [@ EXCEPT !.last_run_at = now] ELSE @]

\* The BackgroundScheduler processes a due job: the job gets its next run time;
\* the run is dropped when it is late by more than misfire_grace_time (a whole
\* tick) or when the job's previous run has not returned (max_instances is 1).
Fire(j) ==
  /\ running
  /\ j \in jobs
  /\ Due(j)
  /\ jobs' = (jobs \ {j}) \cup {[j EXCEPT !.next_run_time = NextFire(j.trigger, now + 1)]}
  /\ IF j.next_run_time < now \/ (\E r \in Runners : Active(r) /\ run[r].job = j.id)
       THEN UNCHANGED <<executions, run, schedules>>
       ELSE ExecuteScheduledFlow(j)
  /\ UNCHANGED <<now, installed, flows, active_connections, ws, received, published,
                 running, upd, lastSchedId, resp>>

\* The clock; a running scheduler wakes up for a due job before the next tick.
Tick(limit) ==
  /\ now < limit
  /\ ~(running /\ \E j \in jobs : Due(j))
  /\ now' = now + 1
  /\ UNCHANGED <<installed, flows, engineVars, cronVars, resp>>

RunnerStep(r) ==
  \/ Start(r) \/ SetRunning(r) \/ Parse(r) \/ Crew(r) \/ CommitSuccess(r) \/ Handler(r)
  \/ BroadcastBegin(r) \/ BroadcastSend(r) \/ BroadcastCheck(r) \/ BroadcastRemove(r)

\* ----------------------------------------------------------- specifications
\* Two stored flows: a valid one, and one whose document does not parse
\* (create_flow stores it with is_valid false).
TwoFlows == [f \in FlowIds |-> IF f = 1 THEN FlowRow("t", DocOneTask)
                                        ELSE FlowRow("bad", DocMalformed)]

\* The state after startup (lifespan): empty tables, the scheduler running.
InitEmpty ==
  /\ now = 0
  /\ active_connections = <<>>
  /\ ws = [o \in Observers |-> "new"]
  /\ received = [o \in Observers |-> <<>>]
  /\ published = <<>>
  /\ running = TRUE
  /\ upd = [h \in UpdateThreads |-> NoUpdate]
  /\ resp = Response("", 0, 0)

\* The engine with both flows stored and an every-minute schedule of the
\* malformed flow registered (create_schedule accepts any stored flow).
Init ==
  /\ InitEmpty
  /\ installed = TRUE
  /\ flows = TwoFlows
  /\ executions = [e \in ExecIds |-> NoExecution]
  /\ run = [r \in Runners |-> IdleRunner]
  /\ schedules = [s \in SchedIds |->
       IF s = 1 THEN [NewSchedule(2, CronEveryMinute, NoParams, TRUE, 0) EXCEPT !.next_run_at = 0]
                ELSE NoSchedule]
  /\ jobs = {Job(1, 2, Split(CronEveryMinute), "", "", 0)}
  /\ lastSchedId = 1

LifecycleObservers == {1}

Next ==
  \/ \E f \in FlowIds : CreateExecution(f, NoParams, NoSelection)
  \/ \E j \in jobs : Fire(j)
  \/ \E r \in Runners : RunnerStep(r)
  \/ \E o \in LifecycleObservers : Connect(o) \/ PeerGone(o) \/ EndpointDisconnect(o)
  \/ Tick(MaxTime)

Spec == Init /\ [][Next]_vars

\* ---- one call of execute_flow, its inputs drawn
Selections == {NoSelection, Selection(<<>>), Selection(<<"d">>), Selection(<<"zz">>)}
RunParams == {NoParams, Params("gpt", "", "", "")}

\* One stored flow with any document of Docs, one Pending execution of it, and
\* execute_flow called on it with any selected_tasks.
InitRun ==
  /\ InitEmpty
  /\ installed \in BOOLEAN
  /\ \E d \in Docs, sel \in Selections, p \in RunParams :
       /\ flows = [f \in FlowIds |-> IF f = 1 THEN FlowRow("t", d) ELSE NoFlow]
       /\ executions = [e \in ExecIds |-> IF e = 1 THEN NewExecution(1, p) ELSE NoExecution]
       /\ run = [r \in Runners |->
                   IF r = 1 THEN Call(1, 0, FlowRow("t", d), p, sel) ELSE IdleRunner]
  /\ schedules = [s \in SchedIds |-> NoSchedule]
  /\ jobs = {}
  /\ lastSchedId = 0

\* The steps of execute_flow while nobody is connected.
QuietStep(r) ==
  \/ Start(r) \/ SetRunning(r) \/ Parse(r) \/ Crew(r) \/ CommitSuccess(r) \/ Handler(r)
  \/ BroadcastBegin(r)

NextRun ==
  \/ \E r \in Runners : QuietStep(r)
  \/ Tick(MaxTime)

SpecRun == InitRun /\ [][NextRun]_vars

\* ---- one call of execute_flow with observers that connect, stall and die
NextWatch ==
  \/ \E r \in Runners : RunnerStep(r)
  \/ \E o \in Observers : Connect(o) \/ Stall(o) \/ PeerGone(o) \/ EndpointDisconnect(o)

\* The runner threads keep being scheduled; nothing is assumed of the observers.
SpecWatch == InitRun /\ [][NextWatch]_vars /\ \A r \in Runners : WF_vars(RunnerStep(r))

\* ---- one call of execute_flow while the row is marked cancelled
\* ExecutionStatus.CANCELLED is a value of the status column that no handler
\* writes: a cancellation reaches execute_flow only as the status another
\* session has committed on the row. resp records whether that happened before
\* _execute_crewai_flow was called (code 1) or later (code 0).
Cancel(e) ==
  /\ executions[e].present
  /\ executions[e].status \in {PENDING, RUNNING}
  /\ executions' = [executions EXCEPT ![e].status = CANCELLED]
  /\ resp' = Response("cancel", e,
       IF \E r \in Runners : /\ run[r].eid = e
                             /\ run[r].pc \in {"start", "set_running", "publish", "parse", "crew"}
                             /\ run[r].ctx \in {"", RUNNING}
         THEN 1 ELSE 0)
  /\ UNCHANGED <<now, installed, flows, run, active_connections, ws, received, published,
                 cronVars>>

NextCancel ==
  \/ \E r \in Runners : QuietStep(r)
  \/ \E e \in ExecIds : Cancel(e)
  \/ Tick(MaxTime)

SpecCancel == InitRun /\ [][NextCancel]_vars

\* Both flows stored, nothing scheduled, nothing executed yet.
InitCron ==
  /\ InitEmpty
  /\ installed = TRUE
  /\ flows = TwoFlows
  /\ executions = [e \in ExecIds |-> NoExecution]
  /\ run = [r \in Runners |-> IdleRunner]
  /\ schedules = [s \in SchedIds |-> NoSchedule]
  /\ jobs = {}
  /\ lastSchedId = 0

\* ---- execute_flow called again on an execution that has a row
\* execute_flow is entered with the id of an existing execution, whatever its
\* status and whoever else is driving it.
Reenter(e) ==
  /\ IdleRunners # {}
  /\ executions[e].present
  /\ flows[executions[e].flow_id].present
  /\ run' = [run EXCEPT ![FreeRunner] =
               Call(e, 0, flows[executions[e].flow_id], executions[e].params, NoSelection)]
  /\ UNCHANGED <<now, installed, flows, executions, active_connections, ws, received,
                 published, cronVars, resp>>

NextReentry ==
  \/ \E f \in FlowIds : CreateExecution(f, NoParams, NoSelection)
  \/ \E e \in ExecIds : Reenter(e)
  \/ \E r \in Runners : QuietStep(r)
  \/ Tick(MaxTime)

SpecReentry == InitCron /\ [][NextReentry]_vars

\* ---- POST /executions with selected_tasks, nobody connected
\* selected_tasks of a request: absent, or a list naming the task of flow 1,
\* or a list naming no task.
NextSelect ==
  \/ \E f \in FlowIds, sel \in Selections : CreateExecution(f, NoParams, sel)
  \/ \E r \in Runners : QuietStep(r)
  \/ Tick(MaxTime)

SpecSelect == InitCron /\ [][NextSelect]_vars

\* ---- executions started and deleted through the API, nobody connected
\* delete_execution: 404 for an unknown execution; otherwise the row is deleted,
\* whatever its status.
DeleteExecution(e) ==
  /\ IF ~executions[e].present
       THEN /\ resp' = Response("delete_execution", e, 404)
            /\ UNCHANGED executions
       ELSE /\ executions' = [executions EXCEPT ![e] = NoExecution]
            /\ resp' = Response("delete_execution", e, 204)
  /\ UNCHANGED <<now, installed, flows, run, active_connections, ws, received, published,
                 cronVars>>

NextDelete ==
  \/ \E f \in FlowIds : CreateExecution(f, NoParams, NoSelection)
  \/ \E e \in ExecIds : DeleteExecution(e)
  \/ \E r \in Runners : QuietStep(r)
  \/ Tick(MaxTime)

SpecDelete == InitCron /\ [][NextDelete]_vars

\* ---- the schedules API and the scheduler; execute_flow does not touch the
\* schedules or the job store, so the runs a firing job starts are left at
\* their first step here.
ActiveChoices == {"none", "true", "false"}
\* cron_expression of an update: absent, a valid one, a four-field one.
UpdateCrons == {<<>>, CronMinuteOne, CronFourFields}

NextCron ==
  \/ \E f \in FlowIds, c \in CronInputs, a \in BOOLEAN : CreateSchedule(f, c, NoParams, a)
  \/ \E h \in UpdateThreads, sid \in SchedIds, c \in UpdateCrons,
        a \in ActiveChoices : UpdateScheduleBegin(h, sid, c, "", a)
  \/ \E h \in UpdateThreads : UpdateScheduleFinish(h)
  \/ \E sid \in SchedIds : DeleteSchedule(sid)
  \/ \E j \in jobs : Fire(j)
  \/ Tick(MaxCronTime)

SpecCron == InitCron /\ [][NextCron]_vars

\* ---- schedules created with invocation parameters, their jobs and runs
\* The parameters of a POST /schedules: none, or all four of ScheduleBase.
ScheduleParams == {NoParams, Params("gpt", "ollama", "u", "in")}

NextFiring ==
  \/ \E f \in FlowIds, p \in ScheduleParams : CreateSchedule(f, CronEveryMinute, p, TRUE)
  \/ \E j \in jobs : Fire(j)
  \/ \E r \in Runners : QuietStep(r)
  \/ Tick(MaxCronTime)

SpecFiring == InitCron /\ [][NextFiring]_vars

\* ---- the schedules API, flow deletion and a restart of the process
\* delete_flow: 404 for an unknown flow; the row is deleted and the delete
\* cascades to the flow's executions and schedules (relationship cascade
\* "all, delete-orphan"); the scheduler is not told.
DeleteFlow(fid) ==
  /\ IF ~flows[fid].present
       THEN /\ resp' = Response("delete_flow", fid, 404)
            /\ UNCHANGED <<flows, executions, schedules>>
       ELSE /\ flows' = [flows EXCEPT ![fid] = NoFlow]
            /\ executions' = [e \in ExecIds |->
                 IF executions[e].present /\ executions[e].flow_id = fid
                   THEN NoExecution ELSE executions[e]]
            /\ schedules' = [s \in SchedIds |->
                 IF schedules[s].present /\ schedules[s].flow_id = fid
                   THEN NoSchedule ELSE schedules[s]]
            /\ resp' = Response("delete_flow", fid, 204)
  /\ UNCHANGED <<now, installed, run, active_connections, ws, received, published,
                 jobs, running, upd, lastSchedId>>

\* lifespan after the yield: the server has answered its requests and the
\* process ends once its worker threads have returned.
Shutdown ==
  /\ running
  /\ \A h \in UpdateThreads : upd[h] = NoUpdate
  /\ \A r \in Runners : ~Active(r)
  /\ ShutdownScheduler

\* lifespan before the yield, in a new process over the same database.
Startup ==
  /\ ~running
  /\ StartScheduler

\* cron_expression of a create: every minute, one minute of the hour, four fields.
AdminCrons == {CronEveryMinute, CronMinuteOne, CronFourFields}

\* Requests are served and jobs fire between startup and shutdown.
NextAdmin ==
  \/ \E f \in FlowIds, c \in AdminCrons, a \in BOOLEAN :
        running /\ CreateSchedule(f, c, NoParams, a)
  \/ \E h \in UpdateThreads, sid \in SchedIds, c \in UpdateCrons, a \in ActiveChoices :
        running /\ UpdateScheduleBegin(h, sid, c, "", a)
  \/ \E h \in UpdateThreads : running /\ UpdateScheduleFinish(h)
  \/ \E sid \in SchedIds : running /\ DeleteSchedule(sid)
  \/ \E f \in FlowIds : running /\ DeleteFlow(f)
  \/ \E j \in jobs : Fire(j)
  \/ Tick(MaxCronTime)
  \/ Shutdown
  \/ Startup

SpecAdmin == InitCron /\ [][NextAdmin]_vars

\* ---- the scheduler service called directly, in any order
JobIds == 1..MaxJobIds

\* A call of scheduler_service.add_job; resp keeps the exception it raised.
ServiceAddJob(sid, fid, cron) ==
  LET res == AddJob(jobs, running, sid, fid, cron, "", "", now) IN
  /\ jobs' = res.jobs
  /\ resp' = [op |-> "add_job", id |-> sid, code |-> 0, err |-> res.err]
  /\ UNCHANGED <<now, installed, flows, engineVars, schedules, running, upd, lastSchedId>>

\* A call of scheduler_service.remove_job; it returns None on every path.
ServiceRemoveJob(sid) ==
  /\ jobs' = RemoveJob(jobs, running, sid)
  /\ resp' = [op |-> "remove_job", id |-> sid, code |-> 0, err |-> NoError]
  /\ UNCHANGED <<now, installed, flows, engineVars, schedules, running, upd, lastSchedId>>

NextService ==
  \/ StartScheduler
  \/ ShutdownScheduler
  \/ \E sid \in JobIds, f \in FlowIds, c \in AdminCrons : ServiceAddJob(sid, f, c)
  \/ \E sid \in JobIds : ServiceRemoveJob(sid)

\* The service as constructed (__init__): no BackgroundScheduler, not running.
InitService ==
  /\ now = 0
  /\ installed = TRUE
  /\ flows = TwoFlows
  /\ executions = [e \in ExecIds |-> NoExecution]
  /\ run = [r \in Runners |-> IdleRunner]
  /\ active_connections = <<>>
  /\ ws = [o \in Observers |-> "new"]
  /\ received = [o \in Observers |-> <<>>]
  /\ published = <<>>
  /\ schedules = [s \in SchedIds |-> NoSchedule]
  /\ jobs = {}
  /\ running = FALSE
  /\ upd = [h \in UpdateThreads |-> NoUpdate]
  /\ lastSchedId = 0
  /\ resp = Response("", 0, 0)

SpecService == InitService /\ [][NextService]_vars

\* ------------------------------------------------------------------ claims
\* C1: the stored status of an execution only ever moves Pending -> Running ->
\* one of Success, Failed, Cancelled; once it is terminal it never changes.
C1_StatusMonotonic ==
  [][\A e \in ExecIds :
       (executions[e].present /\ executions'[e].present) =>
         \/ executions'[e].status = executions[e].status
         \/ executions[e].status = PENDING /\ executions'[e].status = RUNNING
         \/ executions[e].status = RUNNING /\ executions'[e].status \in Terminal]_vars

\* C2: of two execute_flow calls in flight on the same execution id at most one
\* drives the execution (has written the record and not yet returned).
C2_OneRunnerPerExecution ==
  \A r, q \in Runners :
    (r # q /\ run[r].eid # 0 /\ run[r].eid = run[q].eid) =>
      ~ /\ run[r].pc \notin {"idle", "start", "set_running", "done"}
        /\ run[q].pc \notin {"idle", "start", "set_running", "done"}

\* C3: completed_at is set exactly when the status is terminal, and started_at
\* is not after completed_at when both are set.
C3_CompletedIffTerminal ==
  \A e \in ExecIds : executions[e].present =>
    /\ (executions[e].completed_at # NoTime) <=> (executions[e].status \in Terminal)
    /\ (executions[e].started_at # NoTime /\ executions[e].completed_at # NoTime)
         => executions[e].started_at <= executions[e].completed_at

\* A run that ended one tick after it started.
C3_Witness ==
  \E e \in ExecIds :
    /\ executions[e].present /\ executions[e].status \in Terminal
    /\ executions[e].started_at # NoTime
    /\ executions[e].started_at < executions[e].completed_at

\* C4: started_at is set exactly when the status is not Pending.
C4_StartedIffNotPending ==
  \A e \in ExecIds : executions[e].present =>
    ((executions[e].started_at # NoTime) <=> (executions[e].status # PENDING))

\* A record in Running with its start time, while another is still Pending.
C4_Witness ==
  \E e, f \in ExecIds :
    /\ executions[e].present /\ executions[e].status = RUNNING
    /\ executions[e].started_at = now
    /\ executions[f].present /\ executions[f].status = PENDING
    /\ executions[f].started_at = NoTime

\* C5: a run of a document with no agents or no tasks ends in Success with
\* tasks_executed 0, with CrewAI installed or not.
C5_EmptyFlowZeroTasks ==
  \A r \in Runners :
    (/\ run[r].pc = "done" /\ run[r].eid # 0 /\ run[r].doc.parses
     /\ (run[r].doc.agents = <<>> \/ run[r].doc.tasks = <<>>)) =>
      /\ executions[run[r].eid].status = SUCCESS
      /\ Len(executions[run[r].eid].outputs) = 1
      /\ executions[run[r].eid].outputs[1].tasks_executed = 0

\* C6: a run with selected_tasks = [] ends in Success with tasks_executed 0,
\* however many tasks the document declares (stated for the documents that
\* declare agents).
C6_EmptySelectionZeroTasks ==
  \A r \in Runners :
    (/\ run[r].pc = "done" /\ run[r].eid # 0 /\ run[r].doc.parses
     /\ run[r].doc.agents # <<>> /\ run[r].sel = Selection(<<>>)) =>
      /\ executions[run[r].eid].status = SUCCESS
      /\ Len(executions[run[r].eid].outputs) = 1
      /\ executions[run[r].eid].outputs[1].tasks_executed = 0

\* C7: a run of a document that does not parse ends in Failed with the parser's
\* error text as error detail and a failed event published, and the record is
\* never Success.
C7_MalformedFails ==
  \A r \in Runners :
    (run[r].eid # 0 /\ ~run[r].doc.parses /\ executions[run[r].eid].present) =>
      /\ executions[run[r].eid].status # SUCCESS
      /\ run[r].pc = "done" =>
           /\ executions[run[r].eid].status = FAILED
           /\ executions[run[r].eid].error_message = "YAMLError"
           /\ \E i \in 1..Len(published) :
                /\ published[i].execution_id = run[r].eid
                /\ published[i].status = FAILED
                /\ published[i].error = "YAMLError"

C9_OneTriggerPerSchedule ==
  [][/\ \A sid \in SchedIds : Cardinality(JobsOf(jobs', sid)) <= 1
     /\ \A h \in UpdateThreads :
          (/\ upd[h] # NoUpdate /\ upd'[h] = NoUpdate
           /\ upd[h].row.is_active /\ resp'.code = 200) =>
            \E j \in jobs' :
              /\ JobsOf(jobs', upd[h].sid) = {j}
              /\ j.trigger = Split(upd[h].row.cron_expression)]_vars

\* The every-minute trigger fired at 0 and was then replaced: the one job of the
\* schedule has the new trigger, which cannot have fired at 0.
C9_Witness ==
  /\ resp = Response("update_schedule", 1, 200)
  /\ schedules[1].present /\ schedules[1].last_run_at = 0
  /\ schedules[1].cron_expression = CronMinuteOne
  /\ \E j \in jobs : JobsOf(jobs, 1) = {j} /\ j.trigger = Split(CronMinuteOne)

\* C10: every observer receives an event at most once and receives its events
\* in the order of the broadcast calls.
C10_PublishOrder ==
  \A o \in Observers :
    \A i, j \in 1..Len(received[o]) :
      i < j => received[o][i].n < received[o][j].n

\* C11: a job that comes due while the execution of its previous fire is still
\* running fires on time all the same: every on-time fire of a job that fired
\* at an earlier time, and whose flow is stored, inserts a new execution.
C11_FireCreatesExecution ==
  [][\A j \in jobs :
       (/\ running /\ Due(j) /\ j.next_run_time = now /\ resp' = resp
        /\ jobs' # jobs
        /\ jobs' = (jobs \ {j}) \cup {[j EXCEPT !.next_run_time = NextFire(j.trigger, now + 1)]}
        /\ flows[j.flow_id].present
        /\ schedules[j.id].present /\ schedules[j.id].last_run_at # NoTime
        /\ schedules[j.id].last_run_at < now) =>
         \E e \in ExecIds :
           /\ ~executions[e].present /\ executions'[e].present
           /\ executions'[e].flow_id = j.flow_id]_vars

\* C12: a status is committed before its event is published: when an observer
\* receives an execution_update with status s for execution e, the stored record
\* of e has status s, or a terminal status when s is Running.
C12_CommitBeforePublish ==
  [][\A o \in Observers :
       Len(received'[o]) > Len(received[o]) =>
         LET m == received'[o][Len(received'[o])]
             row == executions'[m.execution_id]
         IN /\ row.present
            /\ \/ row.status = m.status
               \/ m.status = RUNNING /\ row.status \in Terminal]_vars

\* An observer holds the success event of an execution stored as Success.
C12_Witness ==
  \E o \in Observers : \E i \in 1..Len(received[o]) :
    /\ received[o][i].status = SUCCESS
    /\ executions[received[o][i].execution_id].status = SUCCESS
    /\ executions[received[o][i].execution_id].completed_at # NoTime

\* C13: every run ends: an execution on which execute_flow was started does not
\* stay Pending or Running forever.
C13_RunEnds ==
  \A e \in ExecIds :
    (executions[e].present /\ \E r \in Runners : run[r].eid = e)
      ~> (executions[e].status \in Terminal)

\* C14: an observer never blocks the publisher: a runner inside a broadcast can
\* always take its next step.
C14_PublisherNeverBlocked ==
  \A r \in Runners :
    run[r].pc \in {"bsend", "bcheck", "bremove"} => ENABLED RunnerStep(r)

\* C15: a failed delivery stays with its observer: no exception of a broadcast
\* reaches execute_flow, and once a broadcast is over every observer that is
\* open and was connected before it began (it holds an earlier event) holds the
\* event of that broadcast.
C15_FailureContained ==
  \A r \in Runners :
    /\ run[r].err # "ValueError" /\ ~run[r].escaped
    /\ \A o \in Observers :
         (/\ run[r].pc \notin {"bsend", "bcheck", "bremove"} /\ run[r].msg.n > 0
          /\ ws[o] = "open"
          /\ \E i \in 1..Len(received[o]) : received[o][i].n < run[r].msg.n) =>
           \E i \in 1..Len(received[o]) : received[o][i] = run[r].msg

\* C16: whenever the scheduler runs a job's function (the job is due on time
\* and its previous run has returned), the job's schedule row exists and is
\* active and the job's flow exists.
C16_NoFireAfterRemoval ==
  [][\A j \in jobs :
       (/\ running /\ Due(j) /\ j.next_run_time = now /\ resp' = resp
        /\ ~\E r \in Runners : Active(r) /\ run[r].job = j.id
        /\ jobs' # jobs
        /\ jobs' = (jobs \ {j}) \cup {[j EXCEPT !.next_run_time = NextFire(j.trigger, now + 1)]}) =>
         /\ schedules[j.id].present /\ schedules[j.id].is_active
         /\ flows[j.flow_id].present]_vars

\* C17: a create_schedule call with a cron expression add_job rejects is
\* answered 400 and changes neither the set of active schedule rows nor the
\* triggers of the job store; an update_schedule call with such an expression
\* commits nothing and removes no job.
C17_InvalidCronChangesNothing ==
  [][LET Invalid(c) == Len(Split(c)) # 5 \/ ~TriggerValid(Split(c))
         ActiveRows(sch) == {<<s, sch[s]>> : s \in {x \in SchedIds : sch[x].present /\ sch[x].is_active}}
         Triggers(js) == {<<j.id, j.trigger, j.args>> : j \in js}
     IN /\ (/\ lastSchedId' = lastSchedId + 1
            /\ Invalid(schedules'[lastSchedId'].cron_expression)) =>
              /\ resp'.code = 400
              /\ ActiveRows(schedules') = ActiveRows(schedules)
              /\ Triggers(jobs') = Triggers(jobs)
        /\ \A h \in UpdateThreads :
             (/\ upd[h] = NoUpdate /\ upd'[h] # NoUpdate
              /\ Invalid(upd'[h].row.cron_expression)
              /\ upd'[h].row.cron_expression # schedules[upd'[h].sid].cron_expression) =>
               /\ ActiveRows(schedules') = ActiveRows(schedules)
               /\ Triggers(jobs') = Triggers(jobs)]_vars

\* C18: an active schedule that has its job and no update in flight carries a
\* next_run_at that is not in the past and is the first fire time of its
\* trigger at or after now.
C18_NextRunAtCurrent ==
  \A s \in SchedIds :
    (/\ schedules[s].present /\ schedules[s].is_active
     /\ JobsOf(jobs, s) # {}
     /\ \A h \in UpdateThreads : upd[h].sid # s) =>
      /\ schedules[s].next_run_at # NoTime
      /\ schedules[s].next_run_at >= now
      /\ schedules[s].next_run_at = NextFire(GetJob(jobs, s).trigger, now)

\* C19: once the process has started again, and until the next request, the
\* triggers of the job store are those of the active schedule rows: one job per
\* active row, with the row's flow, cron expression and parameters.
C19_RestartReloadsSchedules ==
  (resp.op = "start" /\ resp.code = 1) =>
    {<<j.id, j.flow_id, j.trigger, j.args>> : j \in jobs} =
      {<<s, schedules[s].flow_id, Split(schedules[s].cron_expression), schedules[s].params>> :
         s \in {x \in SchedIds : schedules[x].present /\ schedules[x].is_active}}

C22_CancelHonored ==
  \A r \in Runners :
    (/\ resp.op = "cancel" /\ resp.code = 1
     /\ run[r].eid = resp.id /\ run[r].pc = "done"
     /\ executions[resp.id].present) =>
      executions[resp.id].status = CANCELLED

\* C23: a run of the one-agent, one-task document with no overrides and no
\* selection, whose kickoff did not raise, ends with the row Success, the
\* "starting" line naming the flow in the stored log, and tasks_executed = 1.
C23_OneTaskScenario ==
  \A r \in Runners :
    (/\ run[r].pc = "done" /\ run[r].doc = DocOneTask
     /\ run[r].params = NoParams /\ run[r].sel = NoSelection
     /\ run[r].err # "TaskError"
     /\ executions[run[r].eid].present) =>
      LET row == executions[run[r].eid] IN
      /\ row.status = SUCCESS
      /\ InSeq(LogLine("starting", run[r].name), row.logs)
      /\ Len(row.outputs) = 1 /\ row.outputs[1].tasks_executed = 1

\* C24: a stored execution carries outputs only while its status is Success and
\* an error_message only while its status is Failed.
C24_OutputXorError ==
  \A e \in ExecIds :
    executions[e].present =>
      /\ executions[e].outputs # <<>> => executions[e].status = SUCCESS
      /\ executions[e].error_message # NoError => executions[e].status = FAILED

\* C25: once started_at or completed_at of an execution is set, no step
\* changes it while the row exists.
C25_TimestampsWrittenOnce ==
  [][\A e \in ExecIds :
       (executions[e].present /\ executions'[e].present) =>
         /\ executions[e].started_at # NoTime =>
              executions'[e].started_at = executions[e].started_at
         /\ executions[e].completed_at # NoTime =>
              executions'[e].completed_at = executions[e].completed_at]_vars

\* C26: when a run has ended and its row exists, the events handed to the
\* broadcaster for its execution are exactly two: a running event, then one
\* terminal event whose status is the row's stored status.
C26_OneEventPerTransition ==
  \A r \in Runners :
    (run[r].pc = "done" /\ run[r].eid \in ExecIds /\ executions[run[r].eid].present) =>
      LET ev == SelectSeq(published, LAMBDA m : m.execution_id = run[r].eid) IN
      /\ Len(ev) = 2
      /\ ev[1].status = RUNNING
      /\ ev[2].status \in Terminal
      /\ ev[2].status = executions[run[r].eid].status

\* C27: when a run whose document parsed (so the header of the log was built)
\* has ended with the row Failed, the stored log holds the "starting" line and
\* every line the run had accumulated.
C27_LogKeptOnFailure ==
  \A r \in Runners :
    (/\ run[r].pc = "done" /\ run[r].doc.parses /\ run[r].logs # <<>>
     /\ run[r].eid \in ExecIds /\ executions[run[r].eid].present
     /\ executions[run[r].eid].status = FAILED) =>
      /\ InSeq(LogLine("starting", run[r].name), executions[run[r].eid].logs)
      /\ executions[run[r].eid].logs = run[r].logs

\* C28: when the last POST /executions named a non-empty selected_tasks and
\* its run has ended without a kickoff exception, the row is Success and
\* tasks_executed counts no more than the flow's tasks named in the list (zero
\* when none is named).
C28_OnlySelectedTasksRun ==
  \A r \in Runners :
    (/\ resp.op = "create_execution" /\ resp.code = 201 /\ Truthy(resp.selected_tasks)
     /\ run[r].eid = resp.id /\ run[r].pc = "done" /\ run[r].err # "TaskError"
     /\ executions[resp.id].present) =>
      LET row == executions[resp.id]
          named == {i \in 1..Len(run[r].doc.tasks) :
                      InSeq(run[r].doc.tasks[i].description, resp.selected_tasks.items)}
      IN /\ row.status = SUCCESS
         /\ Len(row.outputs) = 1
         /\ row.outputs[1].tasks_executed <= Cardinality(named)

\* C29: the parameters of a run started by a job are those stored on the job's
\* schedule row.
C29_ScheduledRunParams ==
  \A r \in Runners :
    (run[r].job # 0 /\ schedules[run[r].job].present) =>
      run[r].params = schedules[run[r].job].params

\* C30: a schedule row that is inactive, with no update_schedule call on it in
\* flight, has no next_run_at and no job.
C30_InactiveHasNoNextRun ==
  \A s \in SchedIds :
    (/\ schedules[s].present /\ ~schedules[s].is_active
     /\ \A h \in UpdateThreads : upd[h].sid # s) =>
      /\ schedules[s].next_run_at = NoTime
      /\ JobsOf(jobs, s) = {}

\* C31: a create_schedule call answered 404 leaves the schedules table, the id
\* counter and the job store as they were, and every schedule row a call
\* inserts names a flow that exists.
C31_UnknownFlowRejected ==
  [][/\ (resp' # resp /\ resp'.op = "create_schedule" /\ resp'.code = 404) =>
          /\ ~flows[resp'.id].present
          /\ schedules' = schedules /\ jobs' = jobs /\ lastSchedId' = lastSchedId
     /\ lastSchedId' # lastSchedId =>
          /\ schedules'[lastSchedId'].present
          /\ flows[schedules'[lastSchedId'].flow_id].present]_vars

\* A create_schedule call for a deleted flow has been answered 404.
C31_Witness ==
  /\ resp.op = "create_schedule" /\ resp.code = 404
  /\ ~flows[resp.id].present
  /\ lastSchedId = 0 /\ jobs = {}

\* C32: while an execution is Running and a call of execute_flow is driving
\* it, no step removes its row, and only that call's own steps change it, so
\* the row is still there when the call commits its terminal status.
C32_OnlyOwnerMutates ==
  [][\A e \in ExecIds :
        (/\ executions[e].present /\ executions[e].status = RUNNING
         /\ \E r \in Runners : Active(r) /\ run[r].eid = e) =>
          /\ executions'[e].present
          /\ executions'[e] # executions[e] =>
               \E r \in Runners : run[r].eid = e /\ run'[r] # run[r]]_vars

\* C33: with the scheduler running and no update_schedule call in flight, a
\* schedule id has a job exactly when its row exists and is active, and that job
\* carries the row's cron expression, model and inputs.
C33_RegistryMatchesRecords ==
  (running /\ \A h \in UpdateThreads : upd[h] = NoUpdate) =>
    \A s \in SchedIds :
      /\ JobsOf(jobs, s) # {} <=> (schedules[s].present /\ schedules[s].is_active)
      /\ \A j \in JobsOf(jobs, s) :
           /\ j.trigger = Split(schedules[s].cron_expression)
           /\ j.args = schedules[s].params

\* C34: a create_schedule call answered 400 leaves the schedules table and the
\* job store exactly as they were, and an update_schedule call that carries an
\* invalid cron expression leaves the schedule's row and its job as they were.
C34_RejectedCallChangesNothing ==
  [][LET Invalid(c) == Len(Split(c)) # 5 \/ ~TriggerValid(Split(c))
     IN /\ (resp' # resp /\ resp'.op = "create_schedule" /\ resp'.code = 400) =>
              schedules' = schedules /\ jobs' = jobs
        /\ \A h \in UpdateThreads :
             (/\ upd[h] = NoUpdate /\ upd'[h] # NoUpdate
              /\ Invalid(upd'[h].row.cron_expression)) =>
               /\ schedules'[upd'[h].sid] = schedules[upd'[h].sid]
               /\ JobsOf(jobs', upd'[h].sid) = JobsOf(jobs, upd'[h].sid)]_vars

\* C35: every registered job names a flow that exists, also after delete_flow
\* has removed a flow together with its schedule rows.
C35_NoJobForDeletedFlow ==
  \A j \in jobs : flows[j.flow_id].present

C37_NoRunOfInvalidFlow ==
  [][\A e \in ExecIds :
        (~executions[e].present /\ executions'[e].present) =>
          /\ flows[executions'[e].flow_id].present
          /\ flows[executions'[e].flow_id].is_valid]_vars

\* C38: an observer that is open and already holds an earlier event of the same
\* call of execute_flow was connected and healthy during the whole of that
\* call's latest broadcast (a connection never reopens and an open one is never
\* removed); once that broadcast has returned, it holds the broadcast's message.
C38_HealthyObserverReceives ==
  \A r \in Runners : \A o \in Observers :
    (/\ run[r].msg.n > 0
     /\ run[r].pc \notin {"bsend", "bcheck", "bremove"}
     /\ ws[o] = "open"
     /\ \E i \in 1..Len(received[o]) :
          /\ received[o][i].execution_id = run[r].msg.execution_id
          /\ received[o][i].n < run[r].msg.n) =>
      \E i \in 1..Len(received[o]) : received[o][i] = run[r].msg

\* C39: in every order of start, shutdown, add_job and remove_job: start while
\* running makes no scheduler and changes nothing; shutdown while stopped changes
\* nothing; add_job while stopped raises RuntimeError and stores nothing;
\* remove_job never raises, changes nothing while stopped or for an id without
\* a job, and never touches a job of another id.
C39_LifecycleGuards ==
  [][/\ (resp'.op = "start" /\ running) =>
           running' /\ jobs' = jobs /\ resp'.code = 0
     /\ (resp'.op = "shutdown" /\ ~running) =>
           ~running' /\ jobs' = jobs /\ resp'.code = 0
     /\ (resp'.op = "add_job" /\ ~running) =>
           ~running' /\ jobs' = jobs /\ resp'.err = "RuntimeError"
     /\ resp'.op = "remove_job" =>
           /\ running' = running /\ resp'.err = NoError
           /\ (~running \/ JobsOf(jobs, resp'.id) = {}) => jobs' = jobs
           /\ \A k \in jobs : k.id # resp'.id => k \in jobs']_vars

\* add_job was called on a stopped scheduler whose job store holds a job of an
\* earlier run: the call raised and the store has that job only.
C39_Witness ==
  /\ ~running
  /\ resp.op = "add_job" /\ resp.err = "RuntimeError" /\ resp.id = 2
  /\ jobs # {} /\ JobsOf(jobs, 2) = {}

\* C40: a call of execute_flow that finds no row under its execution id returns
\* at once: the step changes no execution row, publishes nothing, raises
\* nothing, and the call is over.
C40_MissingRowReturns ==
  [][\A r \in Runners :
        (/\ run[r].pc = "start" /\ ~executions[run[r].eid].present
         /\ run'[r] # run[r]) =>
          /\ run'[r] = [run[r] EXCEPT !.pc = "done"]
          /\ ~run'[r].escaped
          /\ executions' = executions
          /\ published' = published /\ received' = received]_vars

\* A call has returned for an execution that was deleted before the call
\* looked it up: no row, nothing published, nothing raised.
C40_Witness ==
  \E r \in Runners :
    /\ run[r].pc = "done" /\ run[r].eid # 0
    /\ ~run[r].escaped /\ run[r].err # Stale /\ run[r].msg.n = 0
    /\ \A e \in ExecIds : ~executions[e].present
    /\ published = <<>>
    /\ resp.op = "delete_execution" /\ resp.code = 204

====
